---- MODULE Spec2Model ----
(***************************************************************************)
(* The three Router classes of vanilla-router: the basic Router and the    *)
(* Angular Router of lib/router.ts and the guarded Router of               *)
(* lib/router2.ts.  Strings are sequences of one-character strings, so     *)
(* that split, filter(Boolean), the path regex and the redirect            *)
(* substitution are computed character by character as the code does.      *)
(***************************************************************************)
EXTENDS Integers, Sequences, FiniteSets, TLC

\* ------------------------------------------------------------------ bounds
\* Number of _handleRouting invocations (attempts) explored per behaviour
\* that the environment starts: the constructor, navigate(), start() and
\* popstate.
MaxAttempts == 3
\* Number of redirects explored in the chain one of those attempts starts.
MaxRedirects == 2

\* ------------------------------------------------------- string primitives
NoStr == <<>>

\* characters matched by \w in the redirect placeholder regex
WordChars ==
  {"a","b","c","d","e","g","i","l","m","n","o","t","u","w","x","q",
   "0","1","2","7","_"}

\* String.prototype.split with a one-character separator
RECURSIVE split(_, _)
splitAt(s, c, i) ==
  <<SubSeq(s, 1, i-1)>> \o split(SubSeq(s, i+1, Len(s)), c)

split(s, c) ==
  IF \E i \in 1..Len(s) : s[i] = c
    THEN splitAt(s, c, CHOOSE k \in 1..Len(s) :
                         s[k] = c /\ \A m \in 1..(k-1) : s[m] # c)
    ELSE <<s>>

\* Array.prototype.filter(Boolean) on an array of strings
filterBoolean(parts) == SelectSeq(parts, LAMBDA p : p # NoStr)

\* route.path.split('/').filter(Boolean)
segments(p) == filterBoolean(split(p, "/"))

\* Array.prototype.join with a one-character separator
RECURSIVE join(_, _)
join(parts, c) ==
  IF parts = <<>> THEN NoStr
  ELSE IF Len(parts) = 1 THEN parts[1]
  ELSE parts[1] \o <<c>> \o join(Tail(parts), c)

\* decodeURIComponent on the escapes that occur in the explored URLs
RECURSIVE decodeURIComponent(_)
decodeURIComponent(s) ==
  IF s = NoStr THEN NoStr
  ELSE IF Len(s) >= 3 /\ s[1] = "%" /\ s[2] = "2" /\ s[3] = "0"
    THEN <<" ">> \o decodeURIComponent(SubSeq(s, 4, Len(s)))
  ELSE IF Len(s) >= 3 /\ s[1] = "%" /\ s[2] = "3" /\ s[3] = "D"
    THEN <<"=">> \o decodeURIComponent(SubSeq(s, 4, Len(s)))
  ELSE <<s[1]>> \o decodeURIComponent(Tail(s))

\* a Record<string,string>: a function from keys to values
EmptyMap == <<>>
put(m, k, v) == [x \in (DOMAIN m) \cup {k} |-> IF x = k THEN v ELSE m[x]]
\* { ...a, ...b }
spread(a, b) ==
  [x \in (DOMAIN a) \cup (DOMAIN b) |-> IF x \in DOMAIN b THEN b[x] ELSE a[x]]

\* ------------------------------------------------------------ query parser
\* the forEach body of _parsePath, folded over the '&'-separated tokens
\* if (key) query[key] = value ? decodeURIComponent(value) : ''
setEntry(query, key, value) ==
  IF key # NoStr
    THEN put(query, key,
             IF value # NoStr THEN decodeURIComponent(value) ELSE NoStr)
    ELSE query

\* const [key, value] = param.split('=')
queryEntry(query, kv) ==
  setEntry(query, kv[1], IF Len(kv) >= 2 THEN kv[2] ELSE NoStr)

RECURSIVE parseQuery(_, _)
parseQuery(tokens, query) ==
  IF tokens = <<>> THEN query
  ELSE parseQuery(Tail(tokens), queryEntry(query, split(Head(tokens), "=")))

\* const [pathname, queryString] = path.split('?') and the query loop
\* [pathname, queryString] and the query built from queryString
pathAndQuery(pathname, queryString) ==
  [pathname |-> pathname,
   query    |-> IF queryString # NoStr
                  THEN parseQuery(split(queryString, "&"), EmptyMap)
                  ELSE EmptyMap]

\* destructuring of path.split('?'): the first two elements
firstTwo(parts) ==
  pathAndQuery(parts[1], IF Len(parts) >= 2 THEN parts[2] ELSE NoStr)

splitPath(path) == firstTwo(split(path, "?"))

\* ------------------------------------------------------------------ routes
Star == <<"*">>
NoRoute == <<>>

\* a Route literal; absent optional fields are the empty sequence / "none"
RouteDef(path) ==
  [path |-> path, redirectTo |-> NoStr, loader |-> "none", data |-> EmptyMap,
   children |-> <<>>, canActivate |-> <<>>, canDeactivate |-> <<>>,
   canLoad |-> <<>>, resolve |-> <<>>, errorComponent |-> FALSE]

\* -------------------------------------- matcher of the basic/guarded Router
\* the segment loop of _findMatchingRoute: <<isMatch, params>>
RECURSIVE matchSegments(_, _, _)
matchSegments(routeSegments, pathSegments, params) ==
  IF routeSegments = <<>> THEN [isMatch |-> TRUE, params |-> params]
  ELSE IF Head(Head(routeSegments)) = ":"
    THEN matchSegments(Tail(routeSegments), Tail(pathSegments),
                       put(params, Tail(Head(routeSegments)),
                           Head(pathSegments)))
  ELSE IF Head(routeSegments) # Head(pathSegments)
    THEN [isMatch |-> FALSE, params |-> params]
  ELSE matchSegments(Tail(routeSegments), Tail(pathSegments), params)

\* _findMatchingRoute of the basic and the guarded Router; cp is
\* this.currentParams, which the method overwrites on a match
RECURSIVE _findMatchingRoute(_, _, _)

\* if (childRoute) return childRoute; return route;
childOrRoute(route, child) ==
  IF child.route # NoRoute THEN child
  ELSE [route |-> <<route>>, cp |-> child.cp]

\* if (isMatch) { this.currentParams = params; ... } and the next iteration
matchedOrNext(rest, route, pathname, cp, m) ==
  IF m.isMatch
    THEN childOrRoute(route,
                      _findMatchingRoute(route.children, pathname,
                                             m.params))
    ELSE _findMatchingRoute(rest, pathname, cp)

\* one iteration of the loop, from the segment count test on
compareSegments(rest, route, pathname, cp, routeSegments, pathSegments) ==
  IF Len(routeSegments) # Len(pathSegments)
    THEN _findMatchingRoute(rest, pathname, cp)
    ELSE matchedOrNext(rest, route, pathname, cp,
                       matchSegments(routeSegments, pathSegments, EmptyMap))

_findMatchingRoute(routes, pathname, cp) ==
  IF routes = <<>> THEN [route |-> NoRoute, cp |-> cp]
  ELSE IF Head(routes).path = pathname
    THEN [route |-> <<Head(routes)>>, cp |-> cp]
  ELSE IF Head(routes).path = Star
    THEN [route |-> <<Head(routes)>>, cp |-> cp]
  ELSE compareSegments(Tail(routes), Head(routes), pathname, cp,
                       segments(Head(routes).path), segments(pathname))

\* ------------------------------------------- matcher of the Angular Router
\* regex tokens produced by _convertPathToRegex:
\*   a literal character, "SEG" for ([^/]+), "ANY" for .*
RECURSIVE paramRunEnd(_, _)
\* index of the last character of the maximal run of non-'/' from i
paramRunEnd(p, i) ==
  IF i + 1 <= Len(p) /\ p[i+1] # "/" THEN paramRunEnd(p, i+1) ELSE i

RECURSIVE _convertPathToRegex(_)
_convertPathToRegex(p) ==
  IF p = NoStr THEN <<>>
  ELSE IF Len(p) >= 3 /\ p[1] = "/" /\ p[2] = ":" /\ p[3] # "/"
    THEN <<"/", "SEG">>
           \o _convertPathToRegex(SubSeq(p, paramRunEnd(p, 3) + 1, Len(p)))
  ELSE IF p[1] = "*"
    THEN <<"ANY">> \o _convertPathToRegex(Tail(p))
  ELSE <<p[1]>> \o _convertPathToRegex(Tail(p))

\* path.match(new RegExp('^' + regexPath + '$')) succeeds
RECURSIVE regexMatches(_, _)
regexMatches(re, s) ==
  IF re = <<>> THEN s = NoStr
  ELSE IF Head(re) = "SEG"
    THEN \E n \in 1..Len(s) :
           /\ \A k \in 1..n : s[k] # "/"
           /\ regexMatches(Tail(re), SubSeq(s, n+1, Len(s)))
  ELSE IF Head(re) = "ANY"
    THEN \E n \in 0..Len(s) : regexMatches(Tail(re), SubSeq(s, n+1, Len(s)))
  ELSE /\ s # NoStr
       /\ s[1] = Head(re)
       /\ regexMatches(Tail(re), Tail(s))

\* the for loop of the Angular _findMatchingRoute: best is <<>> or <<route>>
RECURSIVE bestMatchLoop(_, _, _, _)
bestMatchLoop(routes, path, bestMatch, bestMatchLength) ==
  IF routes = <<>> THEN bestMatch
  ELSE \* match[0] of an anchored regex is the whole input, so
       \* matchedLength is Len(path)
       IF /\ regexMatches(_convertPathToRegex(Head(routes).path), path)
          /\ Len(path) > bestMatchLength
         THEN bestMatchLoop(Tail(routes), path, <<Head(routes)>>, Len(path))
         ELSE bestMatchLoop(Tail(routes), path, bestMatch, bestMatchLength)

\* routes.find(r => r.path === '*')
RECURSIVE findStar(_)
findStar(routes) ==
  IF routes = <<>> THEN NoRoute
  ELSE IF Head(routes).path = Star THEN <<Head(routes)>>
  ELSE findStar(Tail(routes))

\* bestMatch ?? routes.find(r => r.path === '*') ?? null
orStar_starFirst(bestMatch, routes) ==
  IF findStar(routes) # NoRoute THEN findStar(routes) ELSE bestMatch

orStar(bestMatch, routes) ==
  IF bestMatch # NoRoute THEN bestMatch ELSE findStar(routes)

_findMatchingRoute_ng(routes, path) ==
  orStar(bestMatchLoop(routes, path, NoRoute, -1), routes)

\* the for loop of _extractRouteParams
RECURSIVE extractLoop(_, _, _)
extractLoop(routeSegments, pathSegments, params) ==
  IF routeSegments = <<>> \/ pathSegments = <<>> THEN params
  ELSE extractLoop(Tail(routeSegments), Tail(pathSegments),
                   IF Head(Head(routeSegments)) = ":"
                     THEN put(params, Tail(Head(routeSegments)),
                              Head(pathSegments))
                     ELSE params)

RECURSIVE _extractRouteParams(_, _, _)

\* if (childRoute) this._extractRouteParams(childRoute, remainingPath, params)
extractFromChild(childRoute, remainingPath, params) ==
  IF childRoute # NoRoute
    THEN _extractRouteParams(childRoute[1], remainingPath, params)
    ELSE params

\* if (route.children) { remainingPath, childRoute, ... }
extractChildren(route, remainingPath, params) ==
  extractFromChild(_findMatchingRoute_ng(route.children, remainingPath),
                   remainingPath, params)

extractSegments(route, routeSegments, pathSegments, params) ==
  extractChildren(route,
                  join(SubSeq(pathSegments, Len(routeSegments) + 1,
                              Len(pathSegments)), "/"),
                  extractLoop(routeSegments, pathSegments, params))

_extractRouteParams(route, pathname, params) ==
  extractSegments(route, segments(route.path), segments(pathname), params)

\* _parsePath of the Angular Router
parsedWithParams(sp, route) ==
  [pathname |-> sp.pathname,
   params   |-> IF route # NoRoute
                  THEN _extractRouteParams(route[1], sp.pathname, EmptyMap)
                  ELSE EmptyMap,
   query    |-> sp.query]

parsedAngular(routes, sp) ==
  parsedWithParams(sp, _findMatchingRoute_ng(routes, sp.pathname))

_parsePath_ng(routes, path) == parsedAngular(routes, splitPath(path))

\* _parsePath of the basic and the guarded Router: params is this.currentParams
parsedBasic(sp, cp) ==
  [pathname |-> sp.pathname, params |-> cp, query |-> sp.query]

_parsePath(path, cp) == parsedBasic(splitPath(path), cp)

\* _handleRedirect: redirectTo.replace(/:\w+/g, ...)
RECURSIVE wordRunEnd(_, _)
wordRunEnd(s, i) ==
  IF i + 1 <= Len(s) /\ s[i+1] \in WordChars THEN wordRunEnd(s, i+1) ELSE i

RECURSIVE _handleRedirect(_, _)

\* return params[paramName] || match
replacement(match, paramName, params) ==
  IF paramName \in DOMAIN params /\ params[paramName] # NoStr
    THEN params[paramName] ELSE match

\* the replacement of the match ending at e, then the rest of the string
replaceAt(redirectTo, params, e) ==
  replacement(SubSeq(redirectTo, 1, e), SubSeq(redirectTo, 2, e), params)
    \o _handleRedirect(SubSeq(redirectTo, e+1, Len(redirectTo)), params)

_handleRedirect(redirectTo, params) ==
  IF redirectTo = NoStr THEN NoStr
  ELSE IF Len(redirectTo) >= 2 /\ redirectTo[1] = ":"
          /\ redirectTo[2] \in WordChars
    THEN replaceAt(redirectTo, params, wordRunEnd(redirectTo, 2))
  ELSE <<redirectTo[1]>> \o _handleRedirect(Tail(redirectTo), params)

\* ------------------------------------------------------ route configurations
Str_a      == <<"/","a">>
Str_b      == <<"/","b">>
Str_bq     == <<"/","b","?","q","=","1">>
Str_g      == <<"/","g">>
Str_zz     == <<"/","z","z">>
Str_old7   == <<"/","o","l","d","/","7">>
Str_new7   == <<"/","n","e","w","/","7">>
Str_oldId  == <<"/","o","l","d","/",":","i","d">>
Str_newId  == <<"/","n","e","w","/",":","i","d">>
Str_about  == <<"/","a","b","o","u","t">>
Str_team   == <<"t","e","a","m">>
Str_aboutTeam == Str_about \o <<"/">> \o Str_team
Str_ax     == <<"/","a","/",":","x">>
Str_ab     == <<"/","a","/","b">>
Str_usersId == <<"/","u","s","e","r","s","/",":","i","d">>
Str_users42 == <<"/","u","s","e","r","s","/","4","2">>
Str_x      == <<"/","x">>
Str_y      == <<"/","y">>
Key_user   == <<"u">>
Key_title  == <<"t">>
Val_static == <<"S">>

\* two lazily loaded routes, the second behind an activation guard
RoutesLoad ==
  << [RouteDef(Str_a) EXCEPT !.loader = "component"],
     [RouteDef(Str_b) EXCEPT !.loader = "children",
                             !.canActivate = <<"g1">>] >>

\* a route declaring every guard list, a resolver and an error view
RoutesGuards ==
  << [RouteDef(Str_a) EXCEPT !.loader = "component"],
     [RouteDef(Str_g) EXCEPT !.loader = "component",
                             !.canLoad = <<"l1">>,
                             !.canActivate = <<"g1">>,
                             !.canDeactivate = <<"d1">>,
                             !.resolve = <<Key_user>>,
                             !.data = put(put(EmptyMap, Key_user, Val_static),
                                          Key_title, Val_static),
                             !.errorComponent = TRUE] >>

\* {path:'/old/:id', redirectTo:'/new/:id'} behind an activation guard
RoutesRedirect ==
  << [RouteDef(Str_oldId) EXCEPT !.redirectTo = Str_newId,
                                 !.canActivate = <<"g1">>],
     [RouteDef(Str_newId) EXCEPT !.loader = "component"],
     [RouteDef(Star) EXCEPT !.loader = "component"] >>

\* a parameterized route and a literal one, both lazily loaded
RoutesUsers ==
  << [RouteDef(Str_usersId) EXCEPT !.loader = "component"],
     [RouteDef(Str_a) EXCEPT !.loader = "component"] >>

\* two routes that redirect to each other, the first behind an activation
\* guard
RoutesCycle ==
  << [RouteDef(Str_x) EXCEPT !.redirectTo = Str_y, !.canActivate = <<"g1">>],
     [RouteDef(Str_y) EXCEPT !.redirectTo = Str_x] >>

\* a parent with a child, and a parameterized sibling before a literal one
RoutesNested ==
  << [RouteDef(Str_about) EXCEPT !.loader = "component",
        !.children = << [RouteDef(Str_team) EXCEPT !.loader = "component"] >>],
     RouteDef(Str_ax),
     [RouteDef(Str_ab) EXCEPT !.loader = "component"] >>

\* a configuration: the route table, the URL the page is opened on and the
\* URLs navigate() is called with
Configs ==
  { [routes |-> RoutesLoad,     start |-> Str_a,   urls |-> {Str_a, Str_bq, Str_zz}],
    [routes |-> RoutesGuards,   start |-> Str_a,   urls |-> {Str_g}],
    [routes |-> RoutesRedirect, start |-> Str_zz,  urls |-> {Str_old7}],
    [routes |-> RoutesUsers,    start |-> Str_a,   urls |-> {Str_users42}],
    [routes |-> RoutesCycle,    start |-> Str_zz,  urls |-> {Str_x}],
    [routes |-> RoutesNested,   start |-> Str_about,
                                urls |-> {Str_aboutTeam, Str_ab}] }

Variants == {"basic", "angular", "guarded"}

\* ------------------------------------------------------------------- state
VARIABLES
  variant,              \* which Router class is instantiated
  routes,               \* this.routes
  urls,                 \* the URLs the application navigates to
  currentParams,        \* this.currentParams
  currentPath,          \* this.currentPath
  currentQuery,         \* this.currentQuery
  currentComponentRef,  \* this.currentComponentRef (Angular)
  currentModuleRef,     \* this.currentModuleRef (Angular)
  host,                 \* what this.rootElement displays
  history,              \* window.history entries
  hpos,                 \* index of the current history entry
  events,               \* 'routechange' events dispatched on window
  calls,                \* navigate() invocations, in order
  destroyed,            \* component and module references destroyed so far
  attempts,             \* the _handleRouting invocations and their locals
  fnIn,                 \* the arguments of a method applied on its own
  fnOut                 \* what the method returned for fnIn

vars == <<variant, routes, urls, currentParams, currentPath, currentQuery,
          currentComponentRef, currentModuleRef, host, history, hpos, events,
          calls, destroyed, attempts, fnIn, fnOut>>

Null == <<>>

\* the state as one record, so that a handler and the calls it makes
\* are computed as one step
State ==
  [variant |-> variant, routes |-> routes,
   currentParams |-> currentParams, currentPath |-> currentPath,
   currentQuery |-> currentQuery,
   currentComponentRef |-> currentComponentRef,
   currentModuleRef |-> currentModuleRef, host |-> host,
   history |-> history, hpos |-> hpos, events |-> events, calls |-> calls,
   destroyed |-> destroyed, attempts |-> attempts, overflow |-> FALSE]

Becomes(result) == \E s \in {result} :
  /\ ~s.overflow
  /\ currentParams' = s.currentParams
  /\ currentPath' = s.currentPath
  /\ currentQuery' = s.currentQuery
  /\ currentComponentRef' = s.currentComponentRef
  /\ currentModuleRef' = s.currentModuleRef
  /\ host' = s.host
  /\ history' = s.history
  /\ hpos' = s.hpos
  /\ events' = s.events
  /\ calls' = s.calls
  /\ destroyed' = s.destroyed
  /\ attempts' = s.attempts
  /\ UNCHANGED <<variant, routes, urls, fnIn, fnOut>>

\* ------------------------------------------------------------ small helpers
\* one _handleRouting invocation: its arguments, its locals and where it is
NewAttempt(path, parsed, found, cause, parent, s) ==
  [path |-> path, pathname |-> parsed.pathname, params |-> parsed.params,
   query |-> parsed.query, route |-> found.route, bound |-> found.cp,
   hostAtDeactivate |-> Null,
   depth |-> IF parent = 0 THEN 0 ELSE s.attempts[parent].depth + 1,
   pc |-> "running",
   outcome |-> "", invoked |-> <<>>, resolvedData |-> EmptyMap,
   activatedRoute |-> Null, loaded |-> "", cause |-> cause,
   parent |-> parent,
   pre |-> [currentPath |-> s.currentPath,
            currentParams |-> s.currentParams,
            currentQuery |-> s.currentQuery],
   rejectedBy |-> "",
   pendingAtStart |-> {k \in 1..Len(s.attempts) : s.attempts[k].pc # "done"}]

\* the object literal passed to guards and resolvers, read from this.* at
\* the time of the call
snapshot(s, route) ==
  [params |-> s.currentParams, queryParams |-> s.currentQuery,
   path |-> s.currentPath, data |-> route.data]

\* hooks.map(h => h.method(arg)): every hook of the list is called
RECURSIVE invokeAll(_, _, _, _)
invokeAll(invoked, hook, names, arg) ==
  IF names = <<>> THEN invoked
  ELSE invokeAll(Append(invoked, [hook |-> hook, name |-> Head(names),
                                  arg |-> arg]),
                 hook, Tail(names), arg)

suspend(s, id, pc, hook, names, arg) ==
  [s EXCEPT !.attempts[id].pc = pc,
            !.attempts[id].invoked = invokeAll(@, hook, names, arg)]

finish(s, id, outcome) ==
  [s EXCEPT !.attempts[id].pc = "done", !.attempts[id].outcome = outcome]

\* if (results.some((result) => !result)) return;
block(s, id, hook) ==
  finish([s EXCEPT !.attempts[id].rejectedBy = hook], id, "blocked")

\* window.dispatchEvent(new CustomEvent('routechange', {detail}))
dispatchRouteChange(s, id) ==
  LET a == s.attempts[id]
  IN  [s EXCEPT !.events = Append(@, [path |-> a.path, params |-> a.params,
                                      query |-> a.query, by |-> id])]

\* window.history[method]({}, '', path)
historyWrite(s, path, replace) ==
  IF replace
    THEN [s EXCEPT !.history[s.hpos] = path]
    ELSE [s EXCEPT !.history = Append(SubSeq(s.history, 1, s.hpos), path),
                   !.hpos = s.hpos + 1]

\* window.location.pathname + window.location.search
location(s) == s.history[s.hpos]

\* rootElement.innerHTML = '<h1>404 - Page Not Found</h1>'
renderNotFound(s, id) ==
  [s EXCEPT !.host = [kind |-> "notfound", by |-> id, route |-> NoStr,
                      activatedRoute |-> Null]]

\* rootElement.innerHTML = ''; rootElement.appendChild(component(activatedRoute))
mountView(s, id) ==
  LET a == s.attempts[id]
  IN  [s EXCEPT !.host = [kind |-> "view", by |-> id, route |-> a.route[1].path,
                          activatedRoute |-> a.activatedRoute]]

\* _renderAngularComponent
_renderAngularComponent(s, id, kind) ==
  LET a  == s.attempts[id]
      d1 == IF s.currentComponentRef # Null THEN {s.currentComponentRef} ELSE {}
      d2 == IF s.currentModuleRef # Null THEN {s.currentModuleRef} ELSE {}
  IN  [s EXCEPT !.destroyed = @ \cup d1 \cup d2,
                !.currentModuleRef = Null,
                !.currentComponentRef = [ref |-> "component", by |-> id,
                                         kind |-> kind],
                !.host = [kind |-> kind, by |-> id, route |-> a.route[1].path,
                          activatedRoute |-> a.activatedRoute]]

\* the catch branches: the failure placeholder, or the errorComponent
renderLoadFailure_noop(s, id) == s

renderLoadFailure(s, id) ==
  LET a == s.attempts[id]
  IN  IF s.variant = "angular" /\ a.route[1].errorComponent
        THEN _renderAngularComponent(s, id, "errorview")
        ELSE [s EXCEPT !.host = [kind |-> "failed", by |-> id,
                                 route |-> a.route[1].path,
                                 activatedRoute |-> Null]]

\* ------------------------------------------------------- the routing pipeline
RECURSIVE navigate(_, _, _, _, _), _handleRouting(_, _, _, _), run(_, _, _)

\* the activatedRoute literal with the two spreads exchanged
activatedRouteOf_staticWins(s, route, resolvedData) ==
  [params |-> s.currentParams, queryParams |-> s.currentQuery,
   path |-> s.currentPath,
   data |-> IF s.variant = "basic" THEN route.data
            ELSE spread(resolvedData, route.data)]

\* the activatedRoute literal, built from this.* when the resolvers are done
activatedRouteOf(s, route, resolvedData) ==
  [params |-> s.currentParams, queryParams |-> s.currentQuery,
   path |-> s.currentPath,
   data |-> IF s.variant = "basic" THEN route.data
            ELSE spread(route.data, resolvedData)]

\* the path a redirect navigates to
redirectPathOf(s, route, params) ==
  IF s.variant = "angular" THEN _handleRedirect(route.redirectTo, params)
  ELSE route.redirectTo

\* if (route.redirectTo) ... else the loader, or nothing to load
activate(s, id, route, params) ==
  IF route.redirectTo # NoStr
    THEN navigate(finish(s, id, "redirected"),
                  redirectPathOf(s, route, params), TRUE, "redirect", id)
  ELSE IF route.loader # "none"
    THEN suspend(s, id, "awaitLoad", "load", <<route.loader>>, Null)
  ELSE dispatchRouteChange(finish(s, id, "noop"), id)

\* one stage of _handleRouting for the matched route
stage(s, id, name, route, a) ==
  CASE name = "canActivate" ->
         IF s.variant # "basic" /\ route.canActivate # <<>>
           THEN suspend(s, id, "awaitCanActivate", "canActivate",
                        route.canActivate, snapshot(s, route))
           ELSE run(s, id, "canLoad")
    [] name = "canLoad" ->
         IF s.variant = "angular" /\ route.canLoad # <<>>
            /\ route.loader # "none"
           THEN suspend(s, id, "awaitCanLoad", "canLoad", route.canLoad, route)
           ELSE run(s, id, "canDeactivate")
    [] name = "canDeactivate" ->
         IF s.variant = "angular" /\ s.currentComponentRef # Null
            /\ route.canDeactivate # <<>>
           THEN suspend([s EXCEPT !.attempts[id].hostAtDeactivate = s.host],
                        id, "awaitCanDeactivate", "canDeactivate",
                        route.canDeactivate, snapshot(s, route))
           ELSE run(s, id, "resolve")
    [] name = "resolve" ->
         IF s.variant # "basic" /\ route.resolve # <<>>
           THEN suspend(s, id, "awaitResolve", "resolve", route.resolve,
                        snapshot(s, route))
           ELSE run(s, id, "activate")
    [] name = "activate" ->
         activate([s EXCEPT !.attempts[id].activatedRoute =
                     activatedRouteOf(s, route, a.resolvedData)],
                  id, route, a.params)

\* _handleRouting from the given stage up to its next await or its return
run(s, id, name) ==
  stage(s, id, name, s.attempts[id].route[1], s.attempts[id])

\* the statements after _findMatchingRoute: the 404 branch or the pipeline
routed(s, id, route) ==
  IF route = NoRoute
    THEN dispatchRouteChange(finish(renderNotFound(s, id), id, "notfound"),
                             id)
    ELSE run(s, id, "canActivate")

\* this.currentParams/currentPath/currentQuery = ...; _findMatchingRoute
matched(s, path, cause, parent, parsed, found) ==
  routed([s EXCEPT !.currentParams = found.cp,
                   !.currentPath = parsed.pathname,
                   !.currentQuery = parsed.query,
                   !.attempts = Append(@, NewAttempt(path, parsed, found,
                                                     cause, parent, s))],
         Len(s.attempts) + 1, found.route)

\* const route = this._findMatchingRoute(this.routes, pathname)
parsedRouting(s, path, cause, parent, parsed) ==
  matched(s, path, cause, parent, parsed,
          IF s.variant = "angular"
            THEN [route |-> _findMatchingRoute_ng(s.routes,
                                                     parsed.pathname),
                  cp |-> parsed.params]
            ELSE _findMatchingRoute(s.routes, parsed.pathname,
                                        parsed.params))

\* the exploration bounds are used up: the invocation is not explored
exhausted(s, parent) ==
  IF parent # 0
    THEN s.attempts[parent].depth >= MaxRedirects
    ELSE Cardinality({k \in DOMAIN s.attempts : s.attempts[k].parent = 0})
           >= MaxAttempts

\* _handleRouting(path) up to its first await
_handleRouting(s, path, cause, parent) ==
  IF exhausted(s, parent) THEN [s EXCEPT !.overflow = TRUE]
  ELSE parsedRouting(s, path, cause, parent,
                     IF s.variant = "angular"
                       THEN _parsePath_ng(s.routes, path)
                       ELSE _parsePath(path, s.currentParams))

\* the log of navigate() invocations: the caller, the history entry the
\* call wrote and the attempt it starts
called(s, path, replace, parent) ==
  [s EXCEPT !.calls = Append(@, [path |-> path, replace |-> replace,
                                 by |-> parent, slot |-> s.hpos,
                                 attempt |-> Len(s.attempts) + 1])]

\* navigate(path, replace)
navigate(s, path, replace, cause, parent) ==
  _handleRouting(called(historyWrite(s, path, replace), path, replace,
                        parent),
                 path, cause, parent)

\* ----------------------------------------------------------------- actions
\* this.routes.findIndex((r) => r.path === '*'), 1-based; 0 when absent
findIndexStar(rs) ==
  IF \E i \in DOMAIN rs : rs[i].path = Star
    THEN CHOOSE i \in DOMAIN rs :
           rs[i].path = Star /\ \A m \in 1..(i-1) : rs[m].path # Star
    ELSE 0

\* the constructor throws: only the Angular Router inspects the wildcard,
\* and only the first one of the top-level list
constructorThrows(v, rs) ==
  /\ v = "angular"
  /\ findIndexStar(rs) >= 1
  /\ findIndexStar(rs) # Len(rs)

\* new Router(config): the fields' initialisers, then the constructor's
\* _navigateToCurrentUrl() up to its first await
Init ==
  \E v \in Variants, cfg \in Configs :
    LET s0 == [variant |-> v, routes |-> cfg.routes,
               currentParams |-> EmptyMap, currentPath |-> NoStr,
               currentQuery |-> EmptyMap, currentComponentRef |-> Null,
               currentModuleRef |-> Null,
               host |-> [kind |-> "empty", by |-> 0, route |-> NoStr,
                         activatedRoute |-> Null],
               history |-> <<cfg.start>>, hpos |-> 1, events |-> <<>>,
               calls |-> <<>>, destroyed |-> {}, attempts |-> <<>>,
               overflow |-> FALSE]
    IN  \E s1 \in {_handleRouting(s0, cfg.start, "init", 0)} :
        /\ ~constructorThrows(v, cfg.routes)
        /\ ~s1.overflow
        /\ fnIn = Null
        /\ fnOut = Null
        /\ variant = v
        /\ routes = cfg.routes
        /\ urls = cfg.urls
        /\ currentParams = s1.currentParams
        /\ currentPath = s1.currentPath
        /\ currentQuery = s1.currentQuery
        /\ currentComponentRef = s1.currentComponentRef
        /\ currentModuleRef = s1.currentModuleRef
        /\ host = s1.host
        /\ history = s1.history
        /\ hpos = s1.hpos
        /\ events = s1.events
        /\ calls = s1.calls
        /\ destroyed = s1.destroyed
        /\ attempts = s1.attempts

\* the values of navigate()'s second argument the application uses with path
ReplaceArgs(path) == IF path = Str_ab THEN BOOLEAN ELSE {FALSE}

\* router.navigate(path): a call by the application or a link click
Navigate ==
  \E path \in urls : \E replace \in ReplaceArgs(path) :
    Becomes(navigate(State, path, replace, "navigate", 0))

\* router.start(), which the application calls once after construction
Start ==
  /\ \A k \in DOMAIN attempts : attempts[k].cause # "start"
  /\ \E url \in {location(State)} :
       Becomes(_handleRouting(State, url, "start", 0))

\* the user goes back one history entry: _handlePopState
PopState ==
  /\ hpos > 1
  /\ LET s1 == [State EXCEPT !.hpos = hpos - 1]
     IN  Becomes(_handleRouting(s1, location(s1), "popstate", 0))

someFalse(results) == \E k \in DOMAIN results : ~results[k]

\* await Promise.all(route.canActivate.map(...)) settles
SettleCanActivate ==
  \E id \in DOMAIN attempts :
    /\ attempts[id].pc = "awaitCanActivate"
    /\ \E results \in [DOMAIN attempts[id].route[1].canActivate -> BOOLEAN] :
         Becomes(IF someFalse(results)
                   THEN block(State, id, "canActivate")
                   ELSE run(State, id, "canLoad"))

\* await Promise.all(route.canLoad.map(...)) settles
SettleCanLoad ==
  \E id \in DOMAIN attempts :
    /\ attempts[id].pc = "awaitCanLoad"
    /\ \E results \in [DOMAIN attempts[id].route[1].canLoad -> BOOLEAN] :
         Becomes(IF someFalse(results)
                   THEN block(State, id, "canLoad")
                   ELSE run(State, id, "canDeactivate"))

\* await Promise.all(route.canDeactivate.map(...)) settles
SettleCanDeactivate ==
  \E id \in DOMAIN attempts :
    /\ attempts[id].pc = "awaitCanDeactivate"
    /\ \E results \in [DOMAIN attempts[id].route[1].canDeactivate -> BOOLEAN] :
         Becomes(IF someFalse(results)
                   THEN block(State, id, "canDeactivate")
                   ELSE run(State, id, "resolve"))

\* the value a resolver produces
resolverValue(key) == <<"R">> \o key

RECURSIVE collectResolved(_, _)
collectResolved(keys, data) ==
  IF keys = <<>> THEN data
  ELSE collectResolved(Tail(keys), put(data, Head(keys),
                                       resolverValue(Head(keys))))

\* await Promise.all(Object.entries(route.resolve).map(...)) settles: every
\* resolver fulfilled, or one of them rejected and the rejection leaves
\* _handleRouting, which has no handler around the resolver step
SettleResolve ==
  \E id \in DOMAIN attempts :
    /\ attempts[id].pc = "awaitResolve"
    /\ \E fulfilled \in [DOMAIN attempts[id].route[1].resolve -> BOOLEAN] :
         Becomes(IF someFalse(fulfilled)
                   THEN finish(State, id, "rejected")
                   ELSE run([State EXCEPT !.attempts[id].resolvedData =
                               collectResolved(attempts[id].route[1].resolve,
                                               @)],
                            id, "activate"))

\* the results a lazy loader can settle with
LoadResults(v, loader) ==
  IF v = "angular" /\ loader = "children"
    THEN {"resolved", "nocomponent", "rejected"}
    ELSE {"resolved", "rejected"}

\* the try/catch around the loader, after the loader has settled
\* const component = module.instance.ngDoBootstrap(); if (component) ...
bootstrapped(s, id, result) ==
  IF result = "nocomponent"
    THEN finish(s, id, "nomount")
    ELSE finish(_renderAngularComponent(s, id, "view"), id, "mounted")

\* the try block once the loader has fulfilled
loaded(s, id) ==
  IF s.variant = "angular"
    THEN bootstrapped(IF s.attempts[id].route[1].loader = "children"
                        THEN [s EXCEPT !.currentModuleRef =
                                [ref |-> "module", by |-> id,
                                 kind |-> "module"]]
                        ELSE s,
                      id, s.attempts[id].loaded)
    ELSE finish(mountView(s, id), id, "mounted")

settled(s, id) ==
  dispatchRouteChange(IF s.attempts[id].loaded = "rejected"
                        THEN finish(renderLoadFailure(s, id), id, "loadfailed")
                        ELSE loaded(s, id),
                      id)

afterLoad(s, id, result) ==
  settled([s EXCEPT !.attempts[id].loaded = result], id)

\* await route.loadChildren() / await route.loadComponent() settles
SettleLoad ==
  \E id \in DOMAIN attempts :
    /\ attempts[id].pc = "awaitLoad"
    /\ \E result \in LoadResults(variant, attempts[id].route[1].loader) :
         Becomes(afterLoad(State, id, result))

Next ==
  \/ Navigate
  \/ Start
  \/ PopState
  \/ SettleCanActivate
  \/ SettleCanLoad
  \/ SettleCanDeactivate
  \/ SettleResolve
  \/ SettleLoad

Spec == Init /\ [][Next]_vars

\* ------------------------------------------- the methods applied on their own
Str_users42x  == Str_users42 \o <<"/","x">>
Str_users42s  == Str_users42 \o <<"/">>
Str_usersS42  == <<"/","u","s","e","r","s","/","/","4","2">>
Str_users     == <<"/","u","s","e","r","s">>
Str_aS        == <<"/","a","/">>
Str_Sa        == <<"/","/","a">>
Key_id        == <<"i","d">>
Val_7         == <<"7">>

\* route tables the matcher is applied to
MatchTables ==
  { <<RouteDef(Str_usersId)>>,
    <<RouteDef(Str_a)>>,
    <<RouteDef(Str_a), RouteDef(Star)>> }

\* pathnames the matcher is applied to
MatchPaths ==
  { Str_users42, Str_users42x, Str_users42s, Str_usersS42, Str_users,
    Str_usersId, Str_a, Str_aS, Str_Sa, Str_b }

\* values of this.currentParams left by an earlier navigation
ParamsBefore == { EmptyMap, put(EmptyMap, Key_id, Val_7) }

\* raw paths _parsePath is applied to
ParsePaths ==
  { <<"/","p">>,
    <<"/","p","?">>,
    <<"/","p","?","a","=","1">>,
    <<"/","p","?","a","=","1","&","b","=","2">>,
    <<"/","p","?","a","=","1","&","a","=","2">>,
    <<"/","p","?","a">>,
    <<"/","p","?","a","=">>,
    <<"/","p","?","=","1">>,
    <<"/","p","?","a","=","%","2","0","b">>,
    <<"/","p","?","a","=","1","=","2">>,
    <<"/","p","?","a","=","b","?","c">>,
    <<"/","p","?","a","=","1","&","&","b">> }

\* route tables a Router is constructed with
ConstructTables ==
  { <<RouteDef(Str_a)>>,
    <<RouteDef(Str_a), RouteDef(Star)>>,
    <<RouteDef(Star), RouteDef(Str_a)>>,
    <<RouteDef(Star), RouteDef(Star)>>,
    <<RouteDef(Str_a), RouteDef(Star), RouteDef(Star)>>,
    <<[RouteDef(Str_about) EXCEPT
         !.children = <<RouteDef(Star), RouteDef(Str_team)>>]>>,
    <<[RouteDef(Str_about) EXCEPT
         !.children = <<RouteDef(Str_team), RouteDef(Star)>>]>> }

FnInputs ==
  [fn : {"match"}, variant : Variants, routes : MatchTables,
   path : MatchPaths, cp : ParamsBefore]
  \cup [fn : {"parse"}, variant : Variants, routes : {<<RouteDef(Str_a)>>},
        path : ParsePaths, cp : ParamsBefore]
  \cup [fn : {"construct"}, variant : Variants, routes : ConstructTables,
        path : {NoStr}, cp : {EmptyMap}]

\* a method is about to be applied to fnIn; the router's fields are those of
\* a router that has handled nothing yet
FnInit ==
  /\ fnIn \in FnInputs
  /\ fnOut = Null
  /\ variant = fnIn.variant
  /\ routes = fnIn.routes
  /\ urls = {}
  /\ currentParams = fnIn.cp
  /\ currentPath = NoStr
  /\ currentQuery = EmptyMap
  /\ currentComponentRef = Null
  /\ currentModuleRef = Null
  /\ host = [kind |-> "empty", by |-> 0, route |-> NoStr,
             activatedRoute |-> Null]
  /\ history = <<NoStr>>
  /\ hpos = 1
  /\ events = <<>>
  /\ calls = <<>>
  /\ destroyed = {}
  /\ attempts = <<>>

\* the route the matcher returns and the parameters it binds: the Angular
\* Router binds them in _parsePath, the others in _findMatchingRoute
matchOf(v, rs, pathname, cp) ==
  IF v = "angular"
    THEN [route |-> _findMatchingRoute_ng(rs, pathname),
          cp |-> _parsePath_ng(rs, pathname).params]
    ELSE _findMatchingRoute(rs, pathname, cp)

\* what _parsePath returns
parseOf(v, rs, path, cp) ==
  IF v = "angular" THEN _parsePath_ng(rs, path) ELSE _parsePath(path, cp)

Unchanged ==
  UNCHANGED <<variant, routes, urls, currentParams, currentPath, currentQuery,
              currentComponentRef, currentModuleRef, host, history, hpos,
              events, calls, destroyed, attempts, fnIn>>

\* this._findMatchingRoute(this.routes, pathname)
ApplyFindMatchingRoute ==
  /\ fnIn.fn = "match"
  /\ fnOut = Null
  /\ fnOut' = matchOf(fnIn.variant, fnIn.routes, fnIn.path, fnIn.cp)
  /\ Unchanged

\* this._parsePath(path)
ApplyParsePath ==
  /\ fnIn.fn = "parse"
  /\ fnOut = Null
  /\ fnOut' = parseOf(fnIn.variant, fnIn.routes, fnIn.path, fnIn.cp)
  /\ Unchanged

\* new Router({routes})
ApplyConstructor ==
  /\ fnIn.fn = "construct"
  /\ fnOut = Null
  /\ fnOut' = [threw |-> constructorThrows(fnIn.variant, fnIn.routes)]
  /\ Unchanged

FnNext ==
  \/ ApplyFindMatchingRoute
  \/ ApplyParsePath
  \/ ApplyConstructor

FnSpec == FnInit /\ [][FnNext]_vars

\* ------------------------------------------------------- derived quantities
Attempts == DOMAIN attempts
Done(id) == attempts[id].pc = "done"
AllDone == \A id \in Attempts : Done(id)
EventsBy(id) == Cardinality({k \in DOMAIN events : events[k].by = id})
HooksInvoked(id) ==
  {attempts[id].invoked[k].hook : k \in DOMAIN attempts[id].invoked}

TypeOK ==
  /\ variant \in Variants
  /\ Len(attempts) <= MaxAttempts * (MaxRedirects + 1)
  /\ hpos \in DOMAIN history
  /\ \A id \in Attempts :
       attempts[id].pc \in {"awaitCanActivate", "awaitCanLoad",
                            "awaitCanDeactivate", "awaitResolve",
                            "awaitLoad", "done"}

\* ------------------------------------------------------------------ claims
\* the attempt was started by navigate() while attempt i was still awaiting
Overtakes(i, j) ==
  /\ i < j
  /\ attempts[j].cause = "navigate"
  /\ i \in attempts[j].pendingAtStart

\* C1: when navigate('/b') is called while the attempt of navigate('/a') is
\* still awaiting, then once both are finished the mounted view and the
\* current path are those of '/b'.
C1_LatestNavigationWins ==
  \A i, j \in Attempts :
    ( /\ Overtakes(i, j)
      /\ attempts[i].cause = "navigate"
      /\ attempts[i].pathname # attempts[j].pathname
      /\ j = Len(attempts)
      /\ AllDone
      /\ attempts[j].outcome = "mounted" )
    => /\ host.kind = "view"
       /\ host.by = j
       /\ currentPath = attempts[j].pathname

\* C2: an attempt that is blocked by a guard or whose loader rejects leaves
\* currentPath, currentParams and currentQuery as they were before it.
C2_FailedAttemptKeepsNavigationState ==
  \A id \in Attempts :
    ( /\ id = Len(attempts)
      /\ attempts[id].cause = "navigate"
      /\ attempts[id].pendingAtStart = {}
      /\ Done(id)
      /\ attempts[id].outcome \in {"blocked", "loadfailed"} )
    => /\ currentPath = attempts[id].pre.currentPath
       /\ currentParams = attempts[id].pre.currentParams
       /\ currentQuery = attempts[id].pre.currentQuery

\* C3: in the Angular Router, an attempt in which a load-guard returned false
\* has invoked no activation-guard and no resolver.
C3_RejectingLoadGuardRunsNothingElse ==
  \A id \in Attempts :
    (variant = "angular" /\ attempts[id].rejectedBy = "canLoad")
    => /\ "canActivate" \notin HooksInvoked(id)
       /\ "resolve" \notin HooksInvoked(id)

\* C4: an attempt on a route with redirectTo invokes none of the route's
\* guards or resolvers, and always ends by redirecting.
C4_RedirectShortCircuits ==
  \A id \in Attempts :
    (attempts[id].route # NoRoute /\ attempts[id].route[1].redirectTo # NoStr)
    => /\ HooksInvoked(id) = {}
       /\ Done(id) => attempts[id].outcome = "redirected"

\* C5: a finished attempt has dispatched exactly one routechange event,
\* unless it was blocked by a guard or it redirected, when it dispatched none;
\* a rejected resolver counts as a load failure.
C5_OneEventPerTerminalAttempt ==
  \A id \in Attempts :
    Done(id) =>
      EventsBy(id) = IF attempts[id].outcome \in {"blocked", "redirected"}
                       THEN 0 ELSE 1

\* C6: when the loader rejects, the host shows the failure placeholder (the
\* errorComponent in the Angular Router when declared) and one routechange
\* event carrying the attempted path is dispatched; and after a load failure
\* an attempt whose loader resolves still mounts its route's view.
C6_LoadFailureRecovered ==
  [][\A id \in Attempts :
       (attempts[id].pc = "awaitLoad" /\ attempts'[id].pc = "done") =>
         /\ attempts'[id].loaded = "rejected" =>
              /\ host'.by = id
              /\ host'.kind = IF variant = "angular"
                                 /\ attempts[id].route[1].errorComponent
                                THEN "errorview" ELSE "failed"
              /\ Len(events') = Len(events) + 1
              /\ events'[Len(events')].path = attempts[id].path
              /\ events'[Len(events')].by = id
         /\ ( /\ attempts'[id].loaded = "resolved"
              /\ \E k \in Attempts : attempts[k].outcome = "loadfailed" )
            => /\ host'.kind = "view"
               /\ host'.by = id
               /\ host'.route = attempts[id].route[1].path
    ]_vars

\* a navigate() issued after an attempt's load failure was handled has
\* mounted its own view
C6_Witness ==
  \E k, id \in Attempts :
    /\ k < id
    /\ attempts[k].outcome = "loadfailed"
    /\ \E e \in DOMAIN events :
         events[e].by = k /\ events[e].path = attempts[k].path
    /\ attempts[id].cause = "navigate"
    /\ k \notin attempts[id].pendingAtStart
    /\ attempts[id].outcome = "mounted"
    /\ host.kind = "view"
    /\ host.by = id

\* C7: an attempt one of whose resolvers rejected has dispatched a
\* routechange event with the attempted path and rendered the failure view.
C7_ResolverRejectionIsLoadFailure ==
  \A id \in Attempts :
    attempts[id].outcome = "rejected" =>
      /\ \E e \in DOMAIN events :
           events[e].by = id /\ events[e].path = attempts[id].path
      /\ (id = Len(attempts) /\ AllDone) =>
           host.by = id /\ host.kind \in {"failed", "errorview"}

\* C8: an attempt on {path:'/old/:id', redirectTo:'/new/:id'} with pathname
\* '/old/v' calls navigate('/new/v', true).
C8_RedirectSubstitutesParams ==
  \A id \in Attempts :
    ( /\ attempts[id].route # NoRoute
      /\ attempts[id].route[1].path = Str_oldId
      /\ attempts[id].route[1].redirectTo = Str_newId
      /\ attempts[id].outcome = "redirected" )
    => \E k \in DOMAIN calls :
         /\ calls[k].by = id
         /\ calls[k].replace
         /\ calls[k].path =
              <<"/","n","e","w","/">> \o segments(attempts[id].pathname)[2]

\* C9: with parent '/about' and child 'team', the attempt for '/about/team'
\* activates the child route.
C9_ChildRouteActivated ==
  \A id \in Attempts :
    (routes = RoutesNested /\ attempts[id].pathname = Str_aboutTeam)
    => /\ attempts[id].route # NoRoute
       /\ attempts[id].route[1].path = Str_team

\* C10: with siblings '/a/:x' and '/a/b' in either order, the attempt for
\* '/a/b' activates the literal route '/a/b'.
C10_LiteralSiblingWins ==
  \A id \in Attempts :
    ( /\ \E k \in DOMAIN routes : routes[k].path = Str_ax
      /\ \E k \in DOMAIN routes : routes[k].path = Str_ab
      /\ attempts[id].pathname = Str_ab )
    => /\ attempts[id].route # NoRoute
       /\ attempts[id].route[1].path = Str_ab

\* a route segment that starts with ':'
isParam(seg) == seg # NoStr /\ Head(seg) = ":"

\* the route path has a ':name' segment
Parameterized(path) ==
  \E k \in DOMAIN segments(path) : isParam(segments(path)[k])

\* routeSegments and pathSegments agree position by position, and params
\* holds every ':name' with the pathname segment at its position
BoundBySegment(routeSegments, pathSegments, params) ==
  /\ Len(routeSegments) = Len(pathSegments)
  /\ \A k \in DOMAIN routeSegments :
       IF isParam(routeSegments[k])
         THEN /\ Tail(routeSegments[k]) \in DOMAIN params
              /\ params[Tail(routeSegments[k])] = pathSegments[k]
         ELSE routeSegments[k] = pathSegments[k]

\* the matcher was applied and returned a route
Matched == fnIn.fn = "match" /\ fnOut # Null /\ fnOut.route # NoRoute

\* C11: when the matcher returns a parameterized route for a pathname, the
\* two have the same number of segments, every non-parameter segment is
\* equal, and each ':name' is bound to the pathname segment at its position.
C11_ParamRouteBindsBySegment ==
  (Matched /\ Parameterized(fnOut.route[1].path))
  => BoundBySegment(segments(fnOut.route[1].path), segments(fnIn.path),
                    fnOut.cp)

\* the route path has neither a ':name' nor a '*' segment
Literal(path) ==
  \A k \in DOMAIN segments(path) :
    ~isParam(segments(path)[k]) /\ segments(path)[k] # Star

\* C12: applied to a list holding one literal route, the matcher returns
\* that route iff the pathname is character for character the route's path;
\* a pathname with an extra trailing or doubled '/' is not matched.
C12_LiteralRouteMatchesExactly ==
  ( /\ fnIn.fn = "match"
    /\ fnOut # Null
    /\ Len(fnIn.routes) = 1
    /\ Literal(fnIn.routes[1].path) )
  => (fnOut.route = <<fnIn.routes[1]>>) = (fnIn.path = fnIn.routes[1].path)

\* one route of the list, taken alone, accepts the pathname
Matches(v, route, pathname) ==
  IF v = "angular"
    THEN regexMatches(_convertPathToRegex(route.path), pathname)
    ELSE \/ route.path = pathname
         \/ route.path = Star
         \/ /\ Len(segments(route.path)) = Len(segments(pathname))
            /\ matchSegments(segments(route.path), segments(pathname),
                             EmptyMap).isMatch

\* what C13 says of one attempt a, given the host after the step that
\* started it
FallsBack(a, isLast, h, id) ==
  /\ routes[Len(routes)].path = Star
     => ( (a.route = <<routes[Len(routes)]>>)
          = (\A k \in 1..(Len(routes) - 1) :
               ~Matches(variant, routes[k], a.pathname)) )
  /\ (\A k \in DOMAIN routes :
        /\ routes[k].path # Star
        /\ ~Matches(variant, routes[k], a.pathname))
     => /\ a.route = NoRoute
        /\ a.outcome = "notfound"
        /\ isLast => (h.kind = "notfound" /\ h.by = id)

\* C13: with '*' as the last route, an attempt gets the '*' route iff no
\* earlier route of the list accepts its pathname; with no '*' route and no
\* route accepting the pathname it gets none, renders the not-found view and
\* ends as not found.  Stated of every attempt in the step that starts it.
C13_WildcardIsTheFallback ==
  /\ \A id \in DOMAIN attempts :
       FallsBack(attempts[id], id = Len(attempts), host, id)
  /\ [][\A id \in (DOMAIN attempts') \ (DOMAIN attempts) :
          FallsBack(attempts'[id], id = Len(attempts'), host', id)]_vars

\* with '*' last, one attempt fell through to '*' and another one was given
\* an earlier route
C13_Witness ==
  /\ routes[Len(routes)].path = Star
  /\ \E id \in Attempts : attempts[id].route = <<routes[Len(routes)]>>
  /\ \E id \in Attempts :
       /\ attempts[id].route # NoRoute
       /\ attempts[id].route[1].path # Star

\* a sibling list the wildcard invariant forbids: a '*' that is not the last
\* entry (which covers more than one '*')
Misplaced(rs) == \E k \in 1..(Len(rs) - 1) : rs[k].path = Star

\* the top-level list or the children of one of its routes is forbidden
MisplacedWildcard(rs) ==
  \/ Misplaced(rs)
  \/ \E k \in DOMAIN rs : Misplaced(rs[k].children)

\* C14: constructing a Router whose top-level list or one of whose child
\* lists has a '*' that is not last, or more than one '*', throws.
C14_MisplacedWildcardRejected ==
  ( /\ fnIn.fn = "construct"
    /\ fnOut # Null
    /\ MisplacedWildcard(fnIn.routes) )
  => fnOut.threw

\* the text before the first occurrence of c (all of s when c is absent)
beforeFirst(s, c) == split(s, c)[1]

\* the text after the first occurrence of c ('' when c is absent)
afterFirst(s, c) == SubSeq(s, Len(beforeFirst(s, c)) + 2, Len(s))

\* the query map of '&'-separated tokens, each cut at its first '='
RECURSIVE queryOfTokens(_, _)
queryOfTokens(tokens, query) ==
  IF tokens = <<>> THEN query
  ELSE queryOfTokens(Tail(tokens),
                     IF beforeFirst(Head(tokens), "=") # NoStr
                       THEN put(query, beforeFirst(Head(tokens), "="),
                                decodeURIComponent(
                                  afterFirst(Head(tokens), "=")))
                       ELSE query)

\* C15: _parsePath(rawPath) returns as pathname the text before the first
\* '?', and as query the map built from all the text after that '?': per
\* '&' token the key is the text before the first '=' and the value the
\* decoded text after it (later '=' and '?' included, '' when missing); a
\* token with an empty key adds nothing and a later key overwrites.
C15_ParsePathCutsAtFirstSeparator ==
  (fnIn.fn = "parse" /\ fnOut # Null)
  => /\ fnOut.pathname = beforeFirst(fnIn.path, "?")
     /\ fnOut.query = queryOfTokens(split(afterFirst(fnIn.path, "?"), "&"),
                                    EmptyMap)

\* the payload of the event attempt id dispatched
PayloadOf(id) ==
  {[path |-> events[e].path, params |-> events[e].params,
    query |-> events[e].query] : e \in {k \in DOMAIN events : events[k].by = id}}

\* attempts i and i+1 are two navigate() calls in a row with the same path,
\* each started when nothing was pending, and both have mounted their view
TwiceInARow(i) ==
  /\ i + 1 \in Attempts
  /\ attempts[i].cause = "navigate"
  /\ attempts[i+1].cause = "navigate"
  /\ attempts[i].path = attempts[i+1].path
  /\ attempts[i].pendingAtStart = {}
  /\ attempts[i+1].pendingAtStart = {}
  /\ attempts[i].outcome = "mounted"
  /\ attempts[i+1].outcome = "mounted"

\* C16: two navigate(p) calls in a row, each completing, have dispatched one
\* event each with identical {path, params, query}, and the first call's view
\* was removed and replaced by the second call's view.
C16_RepeatedNavigateSamePayload ==
  \A i \in Attempts :
    TwiceInARow(i) =>
      /\ EventsBy(i) = 1
      /\ EventsBy(i+1) = 1
      /\ PayloadOf(i) = PayloadOf(i+1)
      /\ (i + 1 = Len(attempts)) =>
           /\ host.kind = "view"
           /\ host.by = i + 1
           /\ variant = "angular" =>
                [ref |-> "component", by |-> i, kind |-> "view"] \in destroyed

\* the parameters the route binds from the pathname: ':name' to the segment
\* at its position, nothing for a literal route or no route
ParamsOf(route, pathname) ==
  IF /\ route # NoRoute
     /\ Len(segments(route[1].path)) = Len(segments(pathname))
    THEN matchSegments(segments(route[1].path), segments(pathname),
                       EmptyMap).params
    ELSE EmptyMap

\* C17: for an attempt that ran with no other attempt pending, the params
\* of its event and of the ActivatedRoute of its view are the parameters its
\* route binds from its own pathname ({} for a literal route or no route).
C17_ParamsAreTheAttemptsOwn ==
  \A id \in Attempts :
    ( /\ id = Len(attempts)
      /\ attempts[id].pendingAtStart = {}
      /\ Done(id) )
    => /\ \A e \in DOMAIN events :
            events[e].by = id =>
              events[e].params = ParamsOf(attempts[id].route,
                                          attempts[id].pathname)
       /\ attempts[id].outcome = "mounted" =>
            host.activatedRoute.params = ParamsOf(attempts[id].route,
                                                  attempts[id].pathname)

\* the navigate() call of the application that the call cs[k] descends from
\* through redirects; 0 when the chain starts at the constructor, start()
\* or popstate
RECURSIVE RootOf(_, _)
RootOf(cs, k) ==
  IF cs[k].by = 0 THEN k
  ELSE IF \E m \in DOMAIN cs : cs[m].attempt = cs[k].by
    THEN RootOf(cs, CHOOSE m \in DOMAIN cs : cs[m].attempt = cs[k].by)
  ELSE 0

\* what C18 says of the k-th navigate() call, made in the step from the
\* history h at position pos to the history h2
WritesHistory(cs, k, first, h, pos, h2) ==
  /\ (cs[k].by = 0 /\ ~cs[k].replace) =>
       /\ k = first
       /\ cs[k].slot = pos + 1
       /\ Len(h2) = pos + 1
       /\ \A m \in 1..pos : h2[m] = h[m]
  /\ (cs[k].by = 0 /\ cs[k].replace) =>
       /\ k = first
       /\ cs[k].slot = pos
       /\ Len(h2) = Len(h)
       /\ \A m \in (DOMAIN h) \ {pos} : h2[m] = h[m]
  /\ cs[k].by # 0 =>
       /\ cs[k].replace
       /\ k = first => Len(h2) = Len(h)
       /\ (RootOf(cs, k) # 0 /\ ~cs[RootOf(cs, k)].replace) =>
            cs[k].slot = cs[RootOf(cs, k)].slot
  /\ k = Len(cs) => h2[cs[k].slot] = cs[k].path

\* C18: navigate(path,false) pushes one history entry after the current one
\* and navigate(path,true) overwrites the current entry, before the attempt
\* starts; a step without a navigate() call (start(), popstate, a settling
\* await) writes nothing; a redirect is a navigate(_, true), and the
\* redirects of one navigate(path,false) overwrite the entry that call
\* pushed, so that it holds the final target.
C18_HistoryWrites ==
  [][ /\ Len(calls') = Len(calls) => history' = history
      /\ \A k \in (Len(calls) + 1)..Len(calls') :
           /\ calls'[k].attempt > Len(attempts)
           /\ WritesHistory(calls', k, Len(calls) + 1, history, hpos, history')
    ]_vars

\* C19: every redirect chain is cut before it has performed MaxRedirects
\* redirects: no attempt is the MaxRedirects-th redirect of its chain.
C19_RedirectChainBounded ==
  \A id \in Attempts : attempts[id].depth < MaxRedirects

\* C20: in the Angular Router every canDeactivate guard an attempt invoked
\* while a view was mounted was given the ActivatedRoute of that mounted
\* view; and an attempt that ran alone and was rejected by a canDeactivate
\* guard is blocked and has left the mounted view in place.
C20_DeactivateGuardsSeePreviousRoute ==
  \A id \in Attempts :
    /\ \A k \in DOMAIN attempts[id].invoked :
         ( /\ attempts[id].invoked[k].hook = "canDeactivate"
           /\ attempts[id].hostAtDeactivate.kind \in {"view", "errorview"} )
         => attempts[id].invoked[k].arg =
              attempts[id].hostAtDeactivate.activatedRoute
    /\ ( /\ attempts[id].rejectedBy = "canDeactivate"
         /\ id = Len(attempts)
         /\ attempts[id].pendingAtStart = {} )
       => /\ attempts[id].outcome = "blocked"
          /\ host = attempts[id].hostAtDeactivate

\* the ActivatedRoute literal ar carries the pathname and the query of
\* attempt id and the parameters its own match left in this.currentParams
OwnSnapshot(id, ar) ==
  /\ ar.path = attempts[id].pathname
  /\ ar.queryParams = attempts[id].query
  /\ ar.params = attempts[id].bound

\* C21: the ActivatedRoute given to an attempt's activation guards,
\* deactivation guards and resolvers, and the one built for its view, carry
\* that attempt's own pathname, params and query, whatever other attempts
\* started while it was awaiting.
C21_ActivatedRouteIsTheAttemptsOwn ==
  \A id \in Attempts :
    /\ \A k \in DOMAIN attempts[id].invoked :
         attempts[id].invoked[k].hook
           \in {"canActivate", "canDeactivate", "resolve"}
         => OwnSnapshot(id, attempts[id].invoked[k].arg)
    /\ attempts[id].activatedRoute # Null
       => OwnSnapshot(id, attempts[id].activatedRoute)
    /\ (host.by = id /\ host.kind \in {"view", "errorview"})
       => OwnSnapshot(id, host.activatedRoute)

\* the keys of the resolvers of a route
ResolverNames(route) == {route.resolve[i] : i \in DOMAIN route.resolve}

\* the route's static data overlaid with every resolver's output
Overlaid(route) ==
  [k \in (DOMAIN route.data) \cup ResolverNames(route) |->
     IF k \in ResolverNames(route) THEN resolverValue(k) ELSE route.data[k]]

\* C22: in the Angular Router and the router2.ts Router the ActivatedRoute of
\* an attempt exists only once the attempt is past its resolvers, its data is
\* the route's static data overlaid with the output of every resolver under
\* the resolver's name (the resolver's value kept for a shared key), and that
\* is the ActivatedRoute the mounted view holds.
C22_DataIsStaticOverlaidWithResolved ==
  variant # "basic" =>
    \A id \in Attempts :
      /\ attempts[id].pc \in {"awaitCanActivate", "awaitCanLoad",
                              "awaitCanDeactivate", "awaitResolve"}
         => attempts[id].activatedRoute = Null
      /\ attempts[id].activatedRoute # Null
         => attempts[id].activatedRoute.data = Overlaid(attempts[id].route[1])
      /\ (host.by = id /\ host.kind \in {"view", "errorview"})
         => host.activatedRoute.data = Overlaid(attempts[id].route[1])

\* the view of '/g' is mounted with the resolver's value under the key the
\* static data also defines, and the static value under the other key
C22_Witness ==
  /\ variant # "basic"
  /\ host.kind = "view"
  /\ host.route = Str_g
  /\ Key_user \in DOMAIN attempts[host.by].route[1].data
  /\ host.activatedRoute.data[Key_user] = resolverValue(Key_user)
  /\ host.activatedRoute.data[Key_title] = Val_static

\* the NgModuleRef that the loadChildren of attempt id resolved to
ModuleOf(id) == [ref |-> "module", by |-> id, kind |-> "module"]

\* C23: in the Angular Router, while the component bootstrapped by a
\* loadChildren route is the mounted view, the module loaded for it is the
\* one held in currentModuleRef and has not been destroyed.
C23_ModuleOutlivesItsView ==
  (/\ variant = "angular"
   /\ host.kind = "view"
   /\ attempts[host.by].route[1].loader = "children")
  => /\ currentModuleRef = ModuleOf(host.by)
     /\ ModuleOf(host.by) \notin destroyed

\* the attempts made by _navigateToCurrentUrl: from the constructor and
\* from start()
InitialAttempts ==
  {id \in Attempts : attempts[id].cause \in {"init", "start"}}

\* the attempts that called their route's loader
LoaderInvoked(ids) ==
  {id \in ids : attempts[id].pc = "awaitLoad" \/ attempts[id].loaded # ""}

\* C24: constructing the Router and calling start() once makes exactly one
\* initial attempt for the current URL: one resolution of the route, at
\* most one call of its loader and at most one routechange event for it.
C24_OneInitialAttempt ==
  /\ Cardinality(InitialAttempts) = 1
  /\ Cardinality(LoaderInvoked(InitialAttempts)) <= 1
  /\ Cardinality({k \in DOMAIN events : events[k].by \in InitialAttempts})
       <= 1

\* every attempt ran alone: none started while another was awaiting
OneAtATime ==
  \A id \in Attempts :
    \A k \in attempts[id].pendingAtStart : attempts[k].pc = "running"

\* C25: when no attempt is in flight and the host element shows something,
\* the URL of the current history entry is the URL of the attempt that
\* rendered what the host element shows.
C25_AddressBarMatchesView ==
  (AllDone /\ OneAtATime /\ host.by # 0)
  => location(State) = attempts[host.by].path

\* the host element shows a component created by _renderAngularComponent
ShowsComponent(h) == h.kind \in {"view", "errorview"}

\* C26: in the Angular Router currentComponentRef is non-null exactly when
\* the host element shows a component, every component mounted earlier has
\* been destroyed once the host element shows something else, and
\* deactivation guards are consulted only by attempts that found a component
\* shown in the host element.
C26_ComponentRefTracksTheView ==
  variant = "angular" =>
    /\ (currentComponentRef # Null) <=> ShowsComponent(host)
    /\ ~ShowsComponent(host)
       => \A id \in Attempts :
            attempts[id].outcome = "mounted"
            => [ref |-> "component", by |-> id, kind |-> "view"]
                 \in destroyed
    /\ \A id \in Attempts :
         "canDeactivate" \in HooksInvoked(id)
         => ShowsComponent(attempts[id].hostAtDeactivate)

====
